---- MODULE Spec2Model ----
(***************************************************************************)
(* Model of src/App.tsx: the regex-to-NFA compiler (insertConcat,          *)
(* toPostfix, compileRegexToNFA) and the NFA simulation effect of the      *)
(* RegexAutomata component.                                                *)
(*                                                                         *)
(* A string is a sequence of one-character strings.  A State object is an  *)
(* index into the sequence `heap` (its object identity); its id field is   *)
(* the value of State.idCounter when it was constructed.  A JavaScript Set *)
(* is a duplicate-free sequence in insertion order.                        *)
(***************************************************************************)
EXTENDS Integers, Sequences, FiniteSets, TLC

\* ---------------------------------------------------------------- bounds
MaxPatLen == 3     \* patterns enumerated exhaustively
MaxShortLen == 2   \* test strings run against every enumerated pattern
MaxStrLen == 3     \* test strings run against the named patterns
MaxLongLen == 6    \* test strings over {a, b} run against the default pattern
MaxEditLen == 2    \* test strings typed into the component

\* ------------------------------------------------------------ characters
EPS == "ε"
Letters == {"a", "b", "c"}
PatAlphabet == {"a", "b", "(", ")", "|", "*"}
TestAlphabet == {"a", "b", "c", EPS}
Chars == Letters \cup {"(", ")", "|", "*", ".", EPS}

\* null in place of an NFA; no State object has address 0
Null == [start |-> 0, end |-> 0, states |-> <<>>]

Range(f) == {f[i] : i \in DOMAIN f}

AllSeqs(A, n) == UNION {[1..k -> A] : k \in 0..n}

DefaultPattern == <<"(", "a", "|", "b", ")", "*", "a", "b", "b">>
NestedStar == <<"(", "a", "*", ")", "*">>
NamedPatterns ==
  {DefaultPattern, NestedStar, <<"a", "*">>, <<"a", "b">>, <<"a", "|", "b">>}
Patterns == AllSeqs(PatAlphabet, MaxPatLen)
ShortStrings == AllSeqs(TestAlphabet, MaxShortLen)
TestStrings == AllSeqs(TestAlphabet, MaxStrLen) \cup {<<"a", "a", "a", "a">>}
LongStrings == AllSeqs({"a", "b"}, MaxLongLen)

\* values the user gives the two input boxes of the component
EditPatterns == NamedPatterns \cup {<<"*">>, <<"(">>, <<>>}
EditStrings == AllSeqs({"a", "b"}, MaxEditLen) \cup {<<"c">>}

\* ------------------------------------------------------------ insertConcat
\* /[a-zA-Z0-9]/ on the characters of the model
IsAlnum(c) == c \in Letters
\* mutant of IsC1Alphanum: the class is /[a-zA-Z0-9)]/, the star is forgotten
IsC1AlphanumNoStar(c1) == IsAlnum(c1) \/ c1 = ")"
\* /[a-zA-Z0-9*)]/
IsC1Alphanum(c1) == IsAlnum(c1) \/ c1 \in {"*", ")"}
\* /[a-zA-Z0-9(]/
IsC2Alphanum(c2) == IsAlnum(c2) \/ c2 = "("

RECURSIVE insertConcatFrom(_, _)
insertConcatFrom(pattern, i) ==
  IF i > Len(pattern) THEN <<>>
  ELSE <<pattern[i]>>
       \o (IF i + 1 <= Len(pattern)
              /\ IsC1Alphanum(pattern[i]) /\ IsC2Alphanum(pattern[i + 1])
           THEN <<".">> ELSE <<>>)
       \o insertConcatFrom(pattern, i + 1)

insertConcat(pattern) == insertConcatFrom(pattern, 1)

\* --------------------------------------------------------------- toPostfix
\* precedence[c]; 0 stands for undefined, for which every >= is false
precedence(c) == CASE c = "*" -> 3 [] c = "." -> 2 [] c = "|" -> 1 [] OTHER -> 0

\* mutant of PrecGeq: the comparison is > instead of >=, operators of equal
\* precedence stay on the stack (right-associative)
PrecGt(top, char) ==
  /\ precedence(top) # 0
  /\ precedence(char) # 0
  /\ precedence(top) > precedence(char)
\* precedence[top] >= precedence[char], false when either is undefined
PrecGeq(top, char) ==
  /\ precedence(top) # 0
  /\ precedence(char) # 0
  /\ precedence(top) >= precedence(char)

\* while (stack.length && stack[top] !== '(') output += stack.pop();
\* the state of (output, stack) when the loop exits
RECURSIVE PopToParen(_, _)
PopToParen(output, stk) ==
  IF Len(stk) > 0 /\ stk[Len(stk)] # "("
  THEN PopToParen(Append(output, stk[Len(stk)]), SubSeq(stk, 1, Len(stk) - 1))
  ELSE [output |-> output, stack |-> stk]

\* while (stack.length && precedence[top] >= precedence[char]) output += stack.pop();
RECURSIVE PopGeq(_, _, _)
PopGeq(output, stk, char) ==
  IF Len(stk) > 0 /\ PrecGeq(stk[Len(stk)], char)
  THEN PopGeq(Append(output, stk[Len(stk)]), SubSeq(stk, 1, Len(stk) - 1), char)
  ELSE [output |-> output, stack |-> stk]

\* while (stack.length) output += stack.pop();
RECURSIVE PopAll(_, _)
PopAll(output, stk) ==
  IF Len(stk) > 0
  THEN PopAll(Append(output, stk[Len(stk)]), SubSeq(stk, 1, Len(stk) - 1))
  ELSE output

\* stack.pop() on a possibly empty array
PopOne(stk) == IF Len(stk) > 0 THEN SubSeq(stk, 1, Len(stk) - 1) ELSE stk

\* the loop "for (const char of formatted)" from index i on, then the final pops;
\* r is the (output, stack) pair the inner while loop leaves behind
RECURSIVE toPostfixLoop(_, _, _, _)
toPostfixLoop(formatted, i, output, stk) ==
  IF i > Len(formatted) THEN PopAll(output, stk)
  ELSE LET char == formatted[i] IN
    IF IsAlnum(char) THEN toPostfixLoop(formatted, i + 1, Append(output, char), stk)
    ELSE IF char = "(" THEN toPostfixLoop(formatted, i + 1, output, Append(stk, char))
    ELSE IF char = ")" THEN
      CHOOSE result \in
        {toPostfixLoop(formatted, i + 1, r.output, PopOne(r.stack)) :
           r \in {PopToParen(output, stk)}} : TRUE
    ELSE
      CHOOSE result \in
        {toPostfixLoop(formatted, i + 1, r.output, Append(r.stack, char)) :
           r \in {PopGeq(output, stk, char)}} : TRUE

toPostfix(pattern) == toPostfixLoop(insertConcat(pattern), 1, <<>>, <<>>)

\* ------------------------------------------------------------------ state
VARIABLES
  regexInput,     \* useState: the pattern
  testString,     \* useState: the test string
  activeStates,   \* useState: ids of the highlighted states (array)
  isMatch,        \* useState: the displayed verdict
  nfaObject,      \* useMemo result: Null or [start, end, states]
  nodes,          \* useMemo result: the laid-out nodes
  edges,          \* useMemo result: the laid-out edges
  pc,             \* position of the component's render / effect code
  idCounter,      \* State.idCounter (static)
  postfix,        \* compileRegexToNFA: the token stream
  pos,            \* compileRegexToNFA: index of the next token
  stack,          \* compileRegexToNFA: the fragment stack
  heap,           \* State objects constructed by the running compilation
  currentStates,  \* effect: currentStates
  nextStates,     \* effect: nextStates of the running loop iteration
  charIdx,        \* effect: number of test-string characters consumed
  todo,           \* effect: pending addState calls, next call first
  visits          \* effect: per State, times addState inserted it into the set being built

vars == <<regexInput, testString, activeStates, isMatch, nfaObject, nodes, edges, pc, idCounter,
          postfix, pos, stack, heap, currentStates, nextStates, charIdx, todo, visits>>

memoVars == <<nfaObject, nodes, edges>>
compileVars == <<idCounter, postfix, pos, stack, heap>>
simVars == <<currentStates, nextStates, charIdx, todo, visits>>
uiVars == <<regexInput, testString, activeStates, isMatch>>

\* ------------------------------------------------------------ class State
NoTransitions == [c \in Chars |-> <<>>]

\* mutant of NewState: the constructor reads "this.id = ++State.idCounter",
\* the ids start at 1
NewStatePreIncrement(h, id) ==
  Append(h, [id |-> id + 1, transitions |-> NoTransitions, isAccept |-> FALSE])
\* mutant of NewState: the field default is isAccept = true
NewStateAccepting(h, id) ==
  Append(h, [id |-> id, transitions |-> NoTransitions, isAccept |-> TRUE])

\* new State(): transitions = {}, isAccept = false, id = State.idCounter++
\* (transitions[c] = <<>> stands for an absent key: a list is created only
\* by addTransition, which pushes to it at once)
NewState(h, id) == Append(h, [id |-> id, transitions |-> NoTransitions, isAccept |-> FALSE])

\* s.addTransition(char, next)
addTransition(h, s, char, next) ==
  [h EXCEPT ![s].transitions[char] = Append(@, next)]

\* s.isAccept = b
SetAccept(h, s, b) == [h EXCEPT ![s].isAccept = b]

\* new NFA(start, end)
NFA(start, end) == [start |-> start, end |-> end]

Top(stk) == stk[Len(stk)]
Pop(stk) == SubSeq(stk, 1, Len(stk) - 1)

\* ------------------------------------------------------ compileRegexToNFA
\* mutant of CatchReturnNull: the loop runs outside any try block, the
\* TypeError leaves compileRegexToNFA and the render
UncaughtThrow ==
  /\ UNCHANGED memoVars
  /\ pc' = "crashed"

\* catch (e) { return null; } followed by useMemo's "if (!nfa)" branch
CatchReturnNull ==
  /\ nfaObject' = Null
  /\ nodes' = <<>>
  /\ edges' = <<>>
  /\ pc' = "effect"

\* the '.' branch on fragments n1, n2
ConcatWire(h, n1, n2) ==
  addTransition(SetAccept(h, n1.end, FALSE), n1.end, EPS, n2.start)

\* the '|' branch on fragments n1, n2 and the fresh states start, end
AlternateWire(h, n1, n2, start, end) ==
  LET h1 == addTransition(h, start, EPS, n1.start)
      h2 == addTransition(h1, start, EPS, n2.start)
      h3 == SetAccept(SetAccept(h2, n1.end, FALSE), n2.end, FALSE)
      h4 == addTransition(h3, n1.end, EPS, end)
  IN addTransition(h4, n2.end, EPS, end)

\* mutant of StarWire: the loop-back edge n1.end -> n1.start is missing
StarWireNoLoop(h, n1, start, end) ==
  LET h1 == addTransition(h, start, EPS, n1.start)
      h2 == addTransition(h1, start, EPS, end)
      h3 == SetAccept(h2, n1.end, FALSE)
  IN addTransition(h3, n1.end, EPS, end)

\* the '*' branch on fragment n1 and the fresh states start, end
StarWire(h, n1, start, end) ==
  LET h1 == addTransition(h, start, EPS, n1.start)
      h2 == addTransition(h1, start, EPS, end)
      h3 == SetAccept(h2, n1.end, FALSE)
      h4 == addTransition(h3, n1.end, EPS, n1.start)
  IN addTransition(h4, n1.end, EPS, end)

\* mutant of CompileStart: the line State.idCounter = 0 is missing, the
\* static counter runs on from the previous compilation
CompileStartNoReset ==
  /\ pc = "render"
  /\ idCounter' = idCounter
  /\ postfix' = toPostfix(regexInput)
  /\ pos' = 1
  /\ stack' = <<>>
  /\ heap' = <<>>
  /\ pc' = "compile"
  /\ UNCHANGED <<uiVars, memoVars, simVars>>

\* useMemo body, lines 86-88: reset the counter, translate, empty stack
CompileStart ==
  /\ pc = "render"
  /\ idCounter' = 0
  /\ postfix' = toPostfix(regexInput)
  /\ pos' = 1
  /\ stack' = <<>>
  /\ heap' = <<>>
  /\ pc' = "compile"
  /\ UNCHANGED <<uiVars, memoVars, simVars>>

\* char === '.'
CompileConcat ==
  /\ pc = "compile"
  /\ pos <= Len(postfix)
  /\ postfix[pos] = "."
  /\ IF Len(stack) < 2
     THEN \* n1 is undefined: n1.end throws
          /\ CatchReturnNull
          /\ stack' = <<>>
          /\ UNCHANGED <<idCounter, postfix, pos, heap>>
     ELSE LET n2 == Top(stack)
              n1 == Top(Pop(stack))
          IN /\ heap' = ConcatWire(heap, n1, n2)
             /\ stack' = Append(Pop(Pop(stack)), NFA(n1.start, n2.end))
             /\ pos' = pos + 1
             /\ UNCHANGED <<idCounter, postfix, memoVars, pc>>
  /\ UNCHANGED <<uiVars, simVars>>

\* char === '|'
CompileAlternate ==
  /\ pc = "compile"
  /\ pos <= Len(postfix)
  /\ postfix[pos] = "|"
  /\ LET start == Len(heap) + 1
         end == Len(heap) + 2
         h == NewState(NewState(heap, idCounter), idCounter + 1)
     IN /\ idCounter' = idCounter + 2
        /\ IF Len(stack) < 2
           THEN \* n1 is undefined: n1.start throws after both constructors ran
                /\ CatchReturnNull
                /\ heap' = h
                /\ stack' = <<>>
                /\ UNCHANGED <<postfix, pos>>
           ELSE LET n2 == Top(stack)
                    n1 == Top(Pop(stack))
                IN /\ heap' = AlternateWire(h, n1, n2, start, end)
                   /\ stack' = Append(Pop(Pop(stack)), NFA(start, end))
                   /\ pos' = pos + 1
                   /\ UNCHANGED <<postfix, memoVars, pc>>
  /\ UNCHANGED <<uiVars, simVars>>

\* char === '*'
CompileStar ==
  /\ pc = "compile"
  /\ pos <= Len(postfix)
  /\ postfix[pos] = "*"
  /\ LET start == Len(heap) + 1
         end == Len(heap) + 2
         h == NewState(NewState(heap, idCounter), idCounter + 1)
     IN /\ idCounter' = idCounter + 2
        /\ IF Len(stack) < 1
           THEN \* n1 is undefined: n1.start throws after both constructors ran
                /\ CatchReturnNull
                /\ heap' = h
                /\ UNCHANGED <<postfix, pos, stack>>
           ELSE LET n1 == Top(stack)
                IN /\ heap' = StarWire(h, n1, start, end)
                   /\ stack' = Append(Pop(stack), NFA(start, end))
                   /\ pos' = pos + 1
                   /\ UNCHANGED <<postfix, memoVars, pc>>
  /\ UNCHANGED <<uiVars, simVars>>

\* else: every other character is a literal
CompileLiteral ==
  /\ pc = "compile"
  /\ pos <= Len(postfix)
  /\ postfix[pos] \notin {".", "|", "*"}
  /\ LET start == Len(heap) + 1
         end == Len(heap) + 2
         h == NewState(NewState(heap, idCounter), idCounter + 1)
     IN /\ idCounter' = idCounter + 2
        /\ heap' = addTransition(h, start, postfix[pos], end)
        /\ stack' = Append(stack, NFA(start, end))
        /\ pos' = pos + 1
  /\ UNCHANGED <<uiVars, simVars, postfix, memoVars, pc>>

\* lines 130-132: the automaton or null; on null useMemo returns
\* { nodes: [], edges: [], nfaObject: null }, else it goes on to layoutGraph
CompileReturn ==
  /\ pc = "compile"
  /\ pos > Len(postfix)
  /\ IF Len(stack) = 0
     THEN /\ nfaObject' = Null
          /\ nodes' = <<>>
          /\ edges' = <<>>
          /\ pc' = "effect"
          /\ UNCHANGED <<heap, stack>>
     ELSE LET finalNFA == Top(stack)
              h == SetAccept(heap, finalNFA.end, TRUE)
          IN /\ heap' = h
             /\ stack' = Pop(stack)
             /\ nfaObject' = [start |-> finalNFA.start, end |-> finalNFA.end, states |-> h]
             /\ pc' = "layout"
             /\ UNCHANGED <<nodes, edges>>
  /\ UNCHANGED <<uiVars, simVars, idCounter, postfix, pos>>

\* ------------------------------------------------------------ layoutGraph
\* the order in which Object.entries lists the keys of state.transitions;
\* a State built by compileRegexToNFA holds at most one key
KeyOrder == <<"a", "b", "c", "(", ")", "|", "*", ".", EPS>>

\* the pairs [char, next] the two nested forEach loops visit, in order
RECURSIVE Entries(_, _, _)
Entries(nfa, s, k) ==
  IF k > Len(KeyOrder) THEN <<>>
  ELSE LET char == KeyOrder[k]
           nextStates2 == nfa.states[s].transitions[char]
       IN [i \in 1..Len(nextStates2) |-> [char |-> char, next |-> nextStates2[i]]]
          \o Entries(nfa, s, k + 1)

\* layers[layer] || 0
LayerCount(layers, layer) == IF layer \in DOMAIN layers THEN layers[layer] ELSE 0

\* (layerCount % 2 === 0 ? 1 : -1) * (Math.floor(layerCount/1) * 70)
yOffset(layerCount) ==
  (IF layerCount % 2 = 0 THEN 1 ELSE -1) * (layerCount * 70)

\* one iteration of the while loop on st = [queue, visited, layers, nodes, edges]
LayoutStep(nfa, st) ==
  LET state == Head(st.queue).state
      layer == Head(st.queue).layer
      obj == nfa.states[state]
      layerCount == LayerCount(st.layers, layer)
      out == Entries(nfa, state, 1)
  IN IF obj.id \in st.visited
     THEN [st EXCEPT !.queue = Tail(@)]
     ELSE [queue |-> Tail(st.queue) \o
                     [i \in 1..Len(out) |-> [state |-> out[i].next, layer |-> layer + 1]],
           visited |-> st.visited \cup {obj.id},
           layers |-> [l \in DOMAIN st.layers \cup {layer} |->
                         IF l = layer THEN layerCount + 1 ELSE st.layers[l]],
           nodes |-> Append(st.nodes,
                       [id |-> obj.id,
                        x |-> 60 + (layer * 120),
                        y |-> 150 + yOffset(layerCount),
                        label |-> IF obj.isAccept THEN "End" ELSE ToString(obj.id),
                        isAccept |-> obj.isAccept]),
           edges |-> st.edges \o
                     [i \in 1..Len(out) |->
                        [from |-> obj.id,
                         to |-> nfa.states[out[i].next].id,
                         label |-> out[i].char,
                         id |-> <<obj.id, nfa.states[out[i].next].id, out[i].char>>]]]

\* while (queue.length > 0) { ... }
RECURSIVE layoutLoop(_, _)
layoutLoop(nfa, st) ==
  IF st.queue = <<>> THEN st
  ELSE CHOOSE result \in {layoutLoop(nfa, next) : next \in {LayoutStep(nfa, st)}} : TRUE

\* layoutGraph(nfa): the record holding the returned nodes and edges
layoutGraph(nfa) ==
  layoutLoop(nfa, [queue |-> <<[state |-> nfa.start, layer |-> 0]>>,
                   visited |-> {},
                   layers |-> [l \in {} |-> 0],
                   nodes |-> <<>>,
                   edges |-> <<>>])

\* useMemo, lines 238-239: const { nodes, edges } = layoutGraph(nfa)
LayoutReturn ==
  /\ pc = "layout"
  /\ nodes' = layoutGraph(nfaObject).nodes
  /\ edges' = layoutGraph(nfaObject).edges
  /\ pc' = "effect"
  /\ UNCHANGED <<uiVars, nfaObject, compileVars, simVars>>

\* ---------------------------------------------------- useEffect: simulation
States(nfa) == nfa.states

\* the successor list s.transitions[char] (empty: the key is absent)
Successors(nfa, s, char) == States(nfa)[s].transitions[char]

\* the calls addState(next, nextStates) the loop body makes, in order:
\* currentStates.forEach(s => s.transitions[char]?.forEach(next => ...))
RECURSIVE StepTargets(_, _, _, _)
StepTargets(nfa, cur, i, char) ==
  IF i > Len(cur) THEN <<>>
  ELSE Successors(nfa, cur[i], char) \o StepTargets(nfa, cur, i + 1, char)

\* mutant of AlreadyIn: addState without its visited test
NeverAlreadyIn(s, set) == FALSE

\* if (set.has(s)) return;
AlreadyIn(s, set) == s \in Range(set)

NoVisits == [s \in {} |-> 0]
CountVisit(v, s) ==
  IF s \in DOMAIN v THEN [v EXCEPT ![s] = @ + 1] ELSE v @@ (s :> 1)

\* if (!nfaObject) return;
EffectNoAutomaton ==
  /\ pc = "effect"
  /\ nfaObject = Null
  /\ pc' = "idle"
  /\ UNCHANGED <<uiVars, memoVars, compileVars, simVars>>

\* if (!testString) { setActiveStates([start.id]); setIsMatch(false); return; }
EffectEmptyString ==
  /\ pc = "effect"
  /\ nfaObject # Null
  /\ testString = <<>>
  /\ activeStates' = <<States(nfaObject)[nfaObject.start].id>>
  /\ isMatch' = FALSE
  /\ pc' = "idle"
  /\ UNCHANGED <<regexInput, testString, memoVars, compileVars, simVars>>

\* currentStates = new Set(); addState(nfaObject.start, currentStates) is called
SimStart ==
  /\ pc = "effect"
  /\ nfaObject # Null
  /\ testString # <<>>
  /\ currentStates' = <<>>
  /\ nextStates' = <<>>
  /\ charIdx' = 0
  /\ todo' = <<nfaObject.start>>
  /\ visits' = NoVisits
  /\ pc' = "closure0"
  /\ UNCHANGED <<uiVars, memoVars, compileVars>>

\* one call addState(s, set): return if set has s, else add s and call
\* addState on each epsilon successor in order (they run before the pending calls)
addState ==
  /\ pc \in {"closure0", "closure"}
  /\ todo # <<>>
  /\ LET s == Head(todo)
         set == IF pc = "closure0" THEN currentStates ELSE nextStates
     IN IF AlreadyIn(s, set)
        THEN /\ todo' = Tail(todo)
             /\ UNCHANGED <<currentStates, nextStates, visits>>
        ELSE /\ todo' = Successors(nfaObject, s, EPS) \o Tail(todo)
             /\ visits' = CountVisit(visits, s)
             /\ IF pc = "closure0"
                THEN currentStates' = Append(currentStates, s) /\ UNCHANGED nextStates
                ELSE nextStates' = Append(nextStates, s) /\ UNCHANGED currentStates
  /\ UNCHANGED <<uiVars, memoVars, compileVars, charIdx, pc>>

\* the top-level addState(nfaObject.start, currentStates) has returned
ClosureReturn ==
  /\ pc = "closure0"
  /\ todo = <<>>
  /\ pc' = "loop"
  /\ UNCHANGED <<uiVars, memoVars, compileVars, simVars>>

\* loop body for the next character: nextStates = new Set(), then the addState calls
LoopBody ==
  /\ pc = "loop"
  /\ charIdx < Len(testString)
  /\ nextStates' = <<>>
  /\ todo' = StepTargets(nfaObject, currentStates, 1, testString[charIdx + 1])
  /\ visits' = NoVisits
  /\ pc' = "closure"
  /\ UNCHANGED <<uiVars, memoVars, compileVars, currentStates, charIdx>>

\* currentStates = nextStates; end of the loop iteration
LoopAssign ==
  /\ pc = "closure"
  /\ todo = <<>>
  /\ currentStates' = nextStates
  /\ charIdx' = charIdx + 1
  /\ pc' = "loop"
  /\ UNCHANGED <<uiVars, memoVars, compileVars, nextStates, todo, visits>>

\* Array.from(currentStates).map(s => s.id)
IdsOf(nfa, set) == [i \in 1..Len(set) |-> States(nfa)[set[i]].id]

\* currentStates.forEach(s => { if (s.isAccept) matchFound = true; })
MatchFound(nfa, set) == \E i \in 1..Len(set) : States(nfa)[set[i]].isAccept

\* mutant of SimFinish: the test reads "if (s.isAccept = true)", an
\* assignment that marks every state of the final active set as accepting
SimFinishAssigns ==
  /\ pc = "loop"
  /\ charIdx = Len(testString)
  /\ activeStates' = IdsOf(nfaObject, currentStates)
  /\ isMatch' = (currentStates # <<>>)
  /\ nfaObject' = [nfaObject EXCEPT !.states =
                     [k \in DOMAIN @ |->
                        IF k \in Range(currentStates)
                        THEN [@[k] EXCEPT !.isAccept = TRUE] ELSE @[k]]]
  /\ pc' = "idle"
  /\ UNCHANGED <<regexInput, testString, nodes, edges, compileVars, simVars>>
\* lines 273-278: setActiveStates(activeIds); setIsMatch(matchFound)
SimFinish ==
  /\ pc = "loop"
  /\ charIdx = Len(testString)
  /\ activeStates' = IdsOf(nfaObject, currentStates)
  /\ isMatch' = MatchFound(nfaObject, currentStates)
  /\ pc' = "idle"
  /\ UNCHANGED <<regexInput, testString, memoVars, compileVars, simVars>>

\* ------------------------------------------------------------- component
\* setRegexInput(e.target.value): re-render, useMemo recompiles
SetRegexInput(p) ==
  /\ pc = "idle"
  /\ p # regexInput
  /\ regexInput' = p
  /\ pc' = "render"
  /\ UNCHANGED <<testString, activeStates, isMatch, memoVars, compileVars, simVars>>

\* setTestString(e.target.value): re-render, the effect re-runs
SetTestString(t) ==
  /\ pc = "idle"
  /\ t # testString
  /\ testString' = t
  /\ pc' = "effect"
  /\ UNCHANGED <<regexInput, activeStates, isMatch, memoVars, compileVars, simVars>>

Compile ==
  \/ CompileStart
  \/ CompileConcat
  \/ CompileAlternate
  \/ CompileStar
  \/ CompileLiteral
  \/ CompileReturn
  \/ LayoutReturn

Effect ==
  \/ EffectNoAutomaton
  \/ EffectEmptyString
  \/ SimStart
  \/ addState
  \/ ClosureReturn
  \/ LoopBody
  \/ LoopAssign
  \/ SimFinish

\* values of the variables that no code has assigned yet
Fresh ==
  /\ activeStates = <<>>
  /\ isMatch = FALSE
  /\ nfaObject = Null
  /\ nodes = <<>>
  /\ edges = <<>>
  /\ pc = "render"
  /\ idCounter = 0
  /\ postfix = <<>>
  /\ pos = 1
  /\ stack = <<>>
  /\ heap = <<>>
  /\ currentStates = <<>>
  /\ nextStates = <<>>
  /\ charIdx = 0
  /\ todo = <<>>
  /\ visits = NoVisits

\* useState("(a|b)*abb"), useState(""), useState([]), useState(false)
Init ==
  /\ regexInput = DefaultPattern
  /\ testString = <<>>
  /\ Fresh

Next ==
  \/ Compile
  \/ Effect
  \/ \E p \in EditPatterns : SetRegexInput(p)
  \/ \E t \in EditStrings : SetTestString(t)

Spec == Init /\ [][Next]_vars

\* a started render and its effect run to completion; the user need not type
FairSpec == Spec /\ WF_vars(Compile \/ Effect)

\* The engine on its own: one render of the component with the pattern and
\* the test string drawn from the bounded input sets.
EngineInit ==
  /\ \/ regexInput \in Patterns /\ testString \in ShortStrings
     \/ regexInput \in NamedPatterns /\ testString \in TestStrings
     \/ regexInput = DefaultPattern /\ testString \in LongStrings
  /\ Fresh

EngineNext == Compile \/ Effect

EngineSpec == EngineInit /\ [][EngineNext]_vars

\* every started render and effect runs to completion
EngineFairSpec == EngineSpec /\ WF_vars(EngineNext)

\* ================================================================ properties
\* the render and the effect it scheduled have both finished
Settled == pc = "idle"

\* compileRegexToNFA has returned for the current pattern
Compiled == pc \notin {"render", "compile"}

\* --- reference semantics, independent of the automaton
\* whether the expression a postfix stream denotes can match the empty
\* string: a literal cannot, A.B if both can, A|B if one can, A* always
RECURSIVE NullableEval(_, _, _)
NullableEval(post, i, st) ==
  IF i > Len(post) THEN st
  ELSE LET tok == post[i] IN
    IF tok \in {".", "|"} THEN
      LET b == st[Len(st)]
          a == st[Len(st) - 1]
          r == IF tok = "." THEN a /\ b ELSE a \/ b
      IN NullableEval(post, i + 1, Append(SubSeq(st, 1, Len(st) - 2), r))
    ELSE IF tok = "*" THEN
      NullableEval(post, i + 1, Append(SubSeq(st, 1, Len(st) - 1), TRUE))
    ELSE NullableEval(post, i + 1, Append(st, FALSE))

CanMatchEmpty(pattern) ==
  LET st == NullableEval(toPostfix(pattern), 1, <<>>) IN st[Len(st)]

EndsWith(str, suffix) ==
  /\ Len(str) >= Len(suffix)
  /\ SubSeq(str, Len(str) - Len(suffix) + 1, Len(str)) = suffix

\* parentheses nest properly: no prefix closes more than it opens, and all are closed
RECURSIVE Depth(_, _)
Depth(pattern, n) ==
  IF n = 0 THEN 0
  ELSE Depth(pattern, n - 1)
       + (IF pattern[n] = "(" THEN 1 ELSE IF pattern[n] = ")" THEN -1 ELSE 0)

Balanced(pattern) ==
  /\ \A n \in 0..Len(pattern) : Depth(pattern, n) >= 0
  /\ Depth(pattern, Len(pattern)) = 0

\* --- reference simulation on sets of states
\* least set containing S and closed under epsilon transitions
RECURSIVE EpsClosure(_, _)
EpsClosure(nfa, S) ==
  LET more == S \cup UNION {Range(nfa.states[s].transitions[EPS]) : s \in S}
  IN IF more = S THEN S ELSE EpsClosure(nfa, more)

\* states reached from a state of S by a transition labelled c
Move(nfa, S, c) == UNION {Range(nfa.states[s].transitions[c]) : s \in S}

\* A_n for the test string str
RECURSIVE ActiveAfter(_, _, _)
ActiveAfter(nfa, str, n) ==
  IF n = 0 THEN EpsClosure(nfa, {nfa.start})
  ELSE EpsClosure(nfa, Move(nfa, ActiveAfter(nfa, str, n - 1), str[n]))

IdSet(nfa, S) == {nfa.states[s].id : s \in S}
HasAccept(nfa, S) == \E s \in S : nfa.states[s].isAccept

\* C1: for every pattern that compiles, the verdict shown for the empty
\* test string is true exactly when the pattern can match the empty string.
EmptyVerdictIsNullable ==
  (Settled /\ nfaObject # Null /\ testString = <<>>)
    => (isMatch = CanMatchEmpty(regexInput))

\* C2: the automaton of a* accepts a test string exactly when every
\* character of it is 'a' (the empty string included).
StarAcceptsRepeats ==
  (Settled /\ regexInput = <<"a", "*">>)
    => (isMatch = (\A i \in DOMAIN testString : testString[i] = "a"))

\* C3: the automaton of (a|b)*abb accepts a test string over {a, b}
\* exactly when the string ends with abb.
CompositeAcceptsSuffix ==
  (Settled /\ regexInput = DefaultPattern /\ Range(testString) \subseteq {"a", "b"})
    => (isMatch = EndsWith(testString, <<"a", "b", "b">>))

CompositeWitness ==
  /\ Settled
  /\ regexInput = DefaultPattern
  /\ testString = <<"a", "a", "b", "a", "b", "b">>
  /\ isMatch

\* C4: the automaton of ab accepts exactly the single string ab.
ConcatAcceptsExactly ==
  (Settled /\ regexInput = <<"a", "b">>)
    => (isMatch = (testString = <<"a", "b">>))

\* C5: the automaton of a|b accepts a test string exactly when it is a or b.
AlternationAcceptsEither ==
  (Settled /\ regexInput = <<"a", "|", "b">>)
    => (isMatch = (testString \in {<<"a">>, <<"b">>}))

\* C6: when the postfix stream is empty, or an operator is processed with
\* fewer fragments on the stack than it needs, compileRegexToNFA returns
\* null and no exception escapes it; the patterns "", "*", "|a", "a|" and
\* "()" all end with null.
Arity(tok) == CASE tok \in {".", "|"} -> 2 [] tok = "*" -> 1 [] OTHER -> 0
AtUnderflow == pc = "compile" /\ pos <= Len(postfix) /\ Len(stack) < Arity(postfix[pos])
AtEmptyStream == pc = "compile" /\ postfix = <<>>
MalformedExamples ==
  {<<>>, <<"*">>, <<"|", "a">>, <<"a", "|">>, <<"(", ")">>}

UnderflowYieldsNull ==
  [][/\ (AtUnderflow \/ AtEmptyStream) => (pc' = "effect" /\ nfaObject' = Null)
     /\ (regexInput \in MalformedExamples /\ pc = "compile" /\ pc' # "compile")
          => (pc' = "effect" /\ nfaObject' = Null)]_vars

UnderflowWitness ==
  /\ pc = "effect"
  /\ nfaObject = Null
  /\ pos <= Len(postfix)
  /\ regexInput = <<"|", "a">>

\* C7: every pattern whose parentheses are unbalanced compiles to null.
UnbalancedYieldsNull ==
  (Compiled /\ ~Balanced(regexInput)) => (nfaObject = Null)

\* C8: every simulation of a compiled automaton ends with an active set and
\* a verdict, and no closure computation inserts a state twice.
VisitedOnce == \A s \in DOMAIN visits : visits[s] <= 1

SimulationTerminates ==
  /\ [] VisitedOnce
  /\ (pc = "effect" /\ nfaObject # Null)
       ~> (Settled /\ isMatch \in BOOLEAN /\ activeStates \in Seq(Nat))

\* (a*)* has the epsilon cycle between the inner star's start and end; c is
\* not in the pattern
TerminatesWitness ==
  /\ Settled
  /\ regexInput = NestedStar
  /\ testString = <<"c">>
  /\ nfaObject # Null
  /\ activeStates = <<>>
  /\ isMatch = FALSE

\* C9: for the empty test string the active ids shown are those of the
\* whole epsilon-closure of the start state.
EmptyStringShowsClosure ==
  (Settled /\ nfaObject # Null /\ testString = <<>>)
    => (Range(activeStates) = IdSet(nfaObject, EpsClosure(nfaObject, {nfaObject.start})))

\* C10: the active set shown is A_n of the character-by-character replay
\* and the verdict is true exactly when A_n holds an accepting state.
ReplayEqualsSimulation ==
  (Settled /\ nfaObject # Null)
    => LET An == ActiveAfter(nfaObject, testString, Len(testString))
       IN /\ Range(activeStates) = IdSet(nfaObject, An)
          /\ isMatch = HasAccept(nfaObject, An)

\* the automaton a compilation of the postfix stream post yields when no
\* compilation ran before it: the k-th state allocated carries id k - 1
RECURSIVE RefCompile(_, _, _, _)
RefCompile(post, i, stk, h) ==
  IF i > Len(post)
  THEN IF stk = <<>> THEN Null
       ELSE [start |-> Top(stk).start, end |-> Top(stk).end,
             states |-> SetAccept(h, Top(stk).end, TRUE)]
  ELSE LET tok == post[i]
           start == Len(h) + 1
           end == Len(h) + 2
           h2 == NewState(NewState(h, Len(h)), Len(h) + 1)
       IN CASE tok = "." ->
                 IF Len(stk) < 2 THEN Null
                 ELSE RefCompile(post, i + 1,
                        Append(Pop(Pop(stk)), NFA(Top(Pop(stk)).start, Top(stk).end)),
                        ConcatWire(h, Top(Pop(stk)), Top(stk)))
            [] tok = "|" ->
                 IF Len(stk) < 2 THEN Null
                 ELSE RefCompile(post, i + 1, Append(Pop(Pop(stk)), NFA(start, end)),
                        AlternateWire(h2, Top(Pop(stk)), Top(stk), start, end))
            [] tok = "*" ->
                 IF Len(stk) < 1 THEN Null
                 ELSE RefCompile(post, i + 1, Append(Pop(stk), NFA(start, end)),
                        StarWire(h2, Top(stk), start, end))
            [] OTHER ->
                 RefCompile(post, i + 1, Append(stk, NFA(start, end)),
                   addTransition(h2, start, tok, end))

FreshCompile(pattern) == RefCompile(toPostfix(pattern), 1, <<>>, <<>>)

\* the active ids and the verdict one run of the effect leaves for the
\* pair (nfa, str)
FreshSimulation(nfa, str) ==
  IF str = <<>>
  THEN [active |-> {nfa.states[nfa.start].id}, match |-> FALSE]
  ELSE [active |-> IdSet(nfa, ActiveAfter(nfa, str, Len(str))),
        match |-> HasAccept(nfa, ActiveAfter(nfa, str, Len(str)))]

\* C11: whatever compilations ran before, successful or failed, compiling
\* a pattern yields the automaton a first compilation of it yields (same
\* states, ids from 0, same transitions and accept flags), and simulating
\* an automaton on a string yields the same active set and verdict each time.
CompileIsHistoryFree ==
  /\ Compiled => (nfaObject = FreshCompile(regexInput))
  /\ (Settled /\ nfaObject # Null)
       => /\ Range(activeStates) = FreshSimulation(nfaObject, testString).active
          /\ isMatch = FreshSimulation(nfaObject, testString).match

\* "ab" has just been compiled while the display still shows an id of an
\* earlier, larger automaton
HistoryWitness ==
  /\ pc = "effect"
  /\ regexInput = <<"a", "b">>
  /\ nfaObject # Null
  /\ nfaObject = FreshCompile(regexInput)
  /\ \E i \in DOMAIN activeStates : activeStates[i] >= Len(nfaObject.states)

\* a concatenation point: the character at i ends an operand and the one
\* at i + 1 begins one
ConcatPoint(pattern, i) ==
  /\ i < Len(pattern)
  /\ pattern[i] \in Letters \cup {"*", ")"}
  /\ pattern[i + 1] \in Letters \cup {"("}

\* the index in the formatted string of the i-th character of the pattern
FormattedIndex(pattern, i) ==
  i + Cardinality({j \in 1..(i - 1) : ConcatPoint(pattern, j)})

\* C12: insertConcat puts a '.' between positions i and i+1 exactly at the
\* concatenation points, inserts nothing else (nothing at either boundary),
\* and deleting the dots gives the pattern back.
DotsExactlyAtConcatPoints ==
  LET formatted == insertConcat(regexInput)
      n == Len(regexInput)
  IN /\ Len(formatted) = (IF n = 0 THEN 0 ELSE FormattedIndex(regexInput, n))
     /\ \A i \in 1..n : formatted[FormattedIndex(regexInput, i)] = regexInput[i]
     /\ \A i \in 1..(n - 1) :
          ConcatPoint(regexInput, i)
            <=> (formatted[FormattedIndex(regexInput, i) + 1] = ".")
     /\ SelectSeq(formatted, LAMBDA c : c # ".") = regexInput

\* a*b is formatted as a*.b: a dot after the star, none after a
ConcatPointWitness ==
  /\ pc = "compile"
  /\ regexInput = <<"a", "*", "b">>
  /\ insertConcat(regexInput) = <<"a", "*", ".", "b">>
  /\ postfix = <<"a", "*", "b", ".">>

\* the grammar of well-formed patterns, parsed by recursive descent; each
\* parser returns [ok, out, next]: success, the post-order form of what it
\* read, and the index after it
\*   alt ::= cat ('|' cat)*     cat ::= rep rep*
\*   rep ::= atom '*'*          atom ::= letter | '(' alt ')'
ParseFail == [ok |-> FALSE, out |-> <<>>, next |-> 0]

RECURSIVE ParseAlt(_, _)
RECURSIVE ParseAltTail(_, _)
RECURSIVE ParseCat(_, _)
RECURSIVE ParseCatTail(_, _)
RECURSIVE ParseStars(_, _)

ParseAtom(p, i) ==
  IF i > Len(p) THEN ParseFail
  ELSE IF p[i] \in Letters THEN [ok |-> TRUE, out |-> <<p[i]>>, next |-> i + 1]
  ELSE IF p[i] = "("
       THEN LET r == ParseAlt(p, i + 1)
            IN IF r.ok /\ r.next <= Len(p) /\ p[r.next] = ")"
               THEN [r EXCEPT !.next = @ + 1]
               ELSE ParseFail
  ELSE ParseFail

\* '*' binds tightest: each star applies to what precedes it
ParseStars(p, r) ==
  IF r.next <= Len(p) /\ p[r.next] = "*"
  THEN ParseStars(p, [r EXCEPT !.out = Append(@, "*"), !.next = @ + 1])
  ELSE r

ParseRep(p, i) ==
  LET a == ParseAtom(p, i) IN IF a.ok THEN ParseStars(p, a) ELSE ParseFail

\* '.' is left-associative: the operator follows each further operand
ParseCatTail(p, r) ==
  IF r.next <= Len(p) /\ p[r.next] \in Letters \cup {"("}
  THEN LET r2 == ParseRep(p, r.next)
       IN IF r2.ok
          THEN ParseCatTail(p, [r2 EXCEPT !.out = r.out \o @ \o <<".">>])
          ELSE ParseFail
  ELSE r

ParseCat(p, i) ==
  LET r == ParseRep(p, i) IN IF r.ok THEN ParseCatTail(p, r) ELSE ParseFail

\* '|' binds loosest and is left-associative
ParseAltTail(p, r) ==
  IF r.next <= Len(p) /\ p[r.next] = "|"
  THEN LET r2 == ParseCat(p, r.next + 1)
       IN IF r2.ok
          THEN ParseAltTail(p, [r2 EXCEPT !.out = r.out \o @ \o <<"|">>])
          ELSE ParseFail
  ELSE r

ParseAlt(p, i) ==
  LET r == ParseCat(p, i) IN IF r.ok THEN ParseAltTail(p, r) ELSE ParseFail

WellFormed(pattern) ==
  ParseAlt(pattern, 1).ok /\ ParseAlt(pattern, 1).next = Len(pattern) + 1

PostOrder(pattern) == ParseAlt(pattern, 1).out

LettersOf(str) == SelectSeq(str, LAMBDA c : c \in Letters)

\* the translations the documentation lists
PostfixExamples ==
  /\ toPostfix(<<"a", "|", "b", "c", "*">>) = <<"a", "b", "c", "*", ".", "|">>
  /\ toPostfix(<<"a", "b", "c">>) = <<"a", "b", ".", "c", ".">>
  /\ toPostfix(<<"a", "|", "b", "|", "c">>) = <<"a", "b", "|", "c", "|">>
  /\ toPostfix(DefaultPattern)
       = <<"a", "b", "|", "*", "a", ".", "b", ".", "b", ".">>

\* C13: for a well-formed pattern the postfix stream is the post-order form
\* of its parse with precedence '*' > '.' > '|' and left-associative '.' and
\* '|'; the literals keep their order and no parenthesis is output.
PostfixIsPostOrder ==
  /\ PostfixExamples
  /\ (pc # "render" /\ WellFormed(regexInput))
       => /\ postfix = PostOrder(regexInput)
          /\ LettersOf(postfix) = LettersOf(regexInput)
          /\ \A k \in DOMAIN postfix : postfix[k] \notin {"(", ")"}

\* the default pattern (a|b)*abb has been translated
PostOrderWitness ==
  /\ pc = "compile"
  /\ regexInput = DefaultPattern
  /\ WellFormed(regexInput)
  /\ postfix = <<"a", "b", "|", "*", "a", ".", "b", ".", "b", ".">>

\* C14: once the effects have run, the displayed verdict is true only if the
\* current pattern compiles and its automaton accepts the current test
\* string; no verdict of an earlier automaton is left on display.
VerdictIsCurrent ==
  (Settled /\ isMatch)
    => /\ nfaObject # Null
       /\ HasAccept(nfaObject, ActiveAfter(nfaObject, testString, Len(testString)))

\* the states reachable from the states S along transitions of any label
RECURSIVE Reach(_, _)
Reach(nfa, S) ==
  LET T == S \cup UNION {Range(nfa.states[s].transitions[c]) : s \in S, c \in Chars}
  IN IF T = S THEN S ELSE Reach(nfa, T)

\* C15: when an automaton is returned, the fragment popped at the end of the
\* postfix stream was the only one on the stack, and every state the
\* compilation allocated is reachable from the returned start state.
SingleFragmentReturned ==
  (Compiled /\ nfaObject # Null)
    => /\ stack = <<>>
       /\ Reach(nfaObject, {nfaObject.start}) = DOMAIN nfaObject.states

\* the targets of the literal transitions of s labelled c; the label 'ε' is
\* the compiler's epsilon marker and labels no literal transition
LiteralSuccessors(nfa, s, c) ==
  IF c = EPS THEN <<>> ELSE nfa.states[s].transitions[c]

\* C16: when the input character labels no literal transition out of the
\* current active set (the character 'ε' never does), the step has no
\* successors and the next active set is empty; an empty active set stays
\* empty and ends in the verdict false.
InputFollowsLiteralsOnly ==
  /\ (/\ pc = "closure"
      /\ \A i \in DOMAIN currentStates :
           LiteralSuccessors(nfaObject, currentStates[i], testString[charIdx + 1]) = <<>>)
       => (todo = <<>> /\ nextStates = <<>>)
  /\ (Settled /\ nfaObject # Null /\ testString # <<>> /\ currentStates = <<>>)
       => (~isMatch /\ activeStates = <<>>)

\* C17: once compileRegexToNFA has returned an automaton, no step of a
\* simulation, of the layout or of a later compilation changes the id, the
\* transitions or the accept flag of any of its states; the automaton is
\* only ever replaced as a whole when a later compilation returns.
AutomatonImmutable ==
  [][(nfaObject # Null /\ ~(pc = "compile" /\ pc' # "compile"))
       => (nfaObject' = nfaObject)]_vars

\* the automaton of a* has been laid out and simulated on "a", and the
\* compilation of "ab" is under way
ImmutableWitness ==
  /\ pc = "compile"
  /\ regexInput = <<"a", "b">>
  /\ heap # <<>>
  /\ nfaObject = FreshCompile(<<"a", "*">>)
  /\ nodes # <<>>
  /\ testString = <<"a">>
  /\ isMatch

\* C18: while a compilation runs no allocated state (so no state of a
\* fragment on the stack) is accepting; in a returned automaton exactly one
\* state is accepting, the end state of the returned fragment, and that state
\* has no outgoing transition.
AcceptBookkeeping ==
  /\ (pc = "compile") => (\A k \in DOMAIN heap : ~heap[k].isAccept)
  /\ (Compiled /\ nfaObject # Null)
       => /\ {k \in DOMAIN nfaObject.states : nfaObject.states[k].isAccept}
               = {nfaObject.end}
          /\ \A c \in Chars : nfaObject.states[nfaObject.end].transitions[c] = <<>>

\* compileRegexToNFA has just returned the 14-state automaton of (a|b)*abb
AcceptWitness ==
  /\ pc = "layout"
  /\ regexInput = DefaultPattern
  /\ Len(nfaObject.states) = 14
  /\ nfaObject.states[nfaObject.end].isAccept
  /\ stack = <<>>

\* the number of tokens of the postfix stream the compilation has processed;
\* a token on which the loop threw counts, the constructors before the throw ran
Processed ==
  IF pc = "compile" THEN pos - 1
  ELSE IF pos <= Len(postfix) THEN pos ELSE Len(postfix)

AllocatingTokens == {k \in 1..Processed : postfix[k] # "."}

\* C19: the ids of the states of one compilation are 0, 1, ..., n-1 in the
\* order of allocation, hence pairwise distinct, with n twice the number of
\* literal, '|' and '*' tokens processed; a '.' token allocates nothing.
IdsInAllocationOrder ==
  /\ Len(heap) = 2 * Cardinality(AllocatingTokens)
  /\ idCounter = Len(heap)
  /\ \A k \in DOMAIN heap : heap[k].id = k - 1
  /\ \A k, l \in DOMAIN heap : (heap[k].id = heap[l].id) => (k = l)

\* (a|b)*abb: seven allocating tokens and three dots give ids 0..13
AllocationWitness ==
  /\ Settled
  /\ regexInput = DefaultPattern
  /\ Cardinality(AllocatingTokens) = 7
  /\ Len(postfix) = 10
  /\ Len(heap) = 14
  /\ heap[14].id = 13

====
